---------------------------- MODULE Spec2Model ----------------------------
(***************************************************************************)
(* State-machine model of src/server.js: an Express application whose      *)
(* handlers each map one HTTP request to one (or a short loop of)          *)
(* parameterised MySQL statements.  The database tables are the shared     *)
(* state; every `await query(...)` is one atomic database step.            *)
(***************************************************************************)
EXTENDS Integers, Sequences, FiniteSets, TLC

VARIABLES
    users,          \* table users: sequence of rows, in insertion order
    authReq,        \* the last /register or /login request and its response
    institutions,   \* table institutions: set of rows
    nextInstId,     \* AUTO_INCREMENT counter of table institutions
    instLog,        \* history of /institutions requests and their responses
    applications,   \* table applications: sequence of rows, in insertion order
    applyReq,       \* the last POST /apply request and its response
    admissions,     \* table admissions: sequence of rows, in insertion order
    pub             \* the in-flight POST /publish-admissions requests

vars == <<users, authReq, institutions, nextInstId, instLog,
          applications, applyReq, admissions, pub>>

(***************************************************************************)
(* JavaScript values.  Every value is a tuple whose first element is a     *)
(* string tag, so that any two values can be compared.                     *)
(***************************************************************************)
Undefined == <<"undefined">>
Null == <<"null">>
EmptyStr == <<"str">>
Str(tag, n) == <<"str", tag, n>>

\* a string given by its bytes
Bytes(b) == <<"bytes", b>>

\* JavaScript truthiness of the values above: !v
Falsy(v) == v \in {Undefined, Null, EmptyStr, Bytes(<<>>)}

\* JavaScript  v || d
OrElse(v, d) == IF Falsy(v) THEN d ELSE v

Min(a, b) == IF a <= b THEN a ELSE b

(***************************************************************************)
(* The database driver.  query(sql, params) substitutes the parameters for *)
(* the statement's `?` placeholders from left to right; parameters beyond  *)
(* the last placeholder are not used.  An INSERT is accepted only when it  *)
(* supplies exactly one value per listed column and no placeholder is left *)
(* without a parameter.                                                    *)
(***************************************************************************)
Bind(placeholders, params) == SubSeq(params, 1, Min(placeholders, Len(params)))

InsertAccepted(columns, placeholders, params) ==
    /\ Len(params) >= placeholders
    /\ Len(Bind(placeholders, params)) = Len(columns)

\* the column -> value pairs an INSERT statement carries, by position
BoundColumns(columns, placeholders, params) ==
    LET values == Bind(placeholders, params)
    IN  [c \in {columns[i] : i \in 1..Min(Len(columns), Len(values))} |->
            values[CHOOSE i \in 1..Len(columns) : columns[i] = c]]

(***************************************************************************)
(* POST /apply.  Two handlers are bound to the route; the router keeps     *)
(* both, in binding order.                                                 *)
(***************************************************************************)
\* the seven scalar fields both handlers destructure from req.body
ScalarFields == <<"student_name", "phone_number", "student_id", "university",
                  "course_id", "faculty", "major_subject">>

ScalarFieldSet == {ScalarFields[i] : i \in 1..Len(ScalarFields)}

\* new Array(8): the number of subject/grade slots
NumSlots == 8

\* the number of `?` in the first handler's VALUES list
NumPlaceholders1 == 20

\* the number of `?` in the second handler's VALUES list
NumPlaceholders2 == 7

Col(name, n) == <<name, n>>

RECURSIVE SubjectGradeColumns(_)
\* subject1, grade1, subject2, grade2, ... as listed in the INSERT statement
SubjectGradeColumns(n) ==
    IF n = 0 THEN <<>>
    ELSE SubjectGradeColumns(n - 1) \o <<Col("subject", n), Col("grade", n)>>

ScalarColumns == [i \in 1..Len(ScalarFields) |-> Col(ScalarFields[i], 0)]

\* column list of the first handler's INSERT
ApplyColumns1 == ScalarColumns \o SubjectGradeColumns(NumSlots)

\* column list of the second handler's INSERT
ApplyColumns2 == ScalarColumns

\* new Array(8).fill('')
FilledArray == [i \in 1..NumSlots |-> EmptyStr]

\* arr[index] = v on a dense JavaScript array (index is 0-based)
SetIndex(arr, index, v) ==
    IF index < Len(arr) THEN [arr EXCEPT ![index + 1] = v] ELSE Append(arr, v)

RECURSIVE ForEachSubject(_, _, _)
\* grades.forEach((grade, index) => { subjects[index] = grade.subject || '' })
ForEachSubject(subjects, grades, index) ==
    IF index >= Len(grades) THEN subjects
    ELSE ForEachSubject(
             SetIndex(subjects, index, OrElse(grades[index + 1].subject, EmptyStr)),
             grades, index + 1)

RECURSIVE ForEachGrade(_, _, _)
\* grades.forEach((grade, index) => { gradesValues[index] = grade.grade || '' })
ForEachGrade(gradesValues, grades, index) ==
    IF index >= Len(grades) THEN gradesValues
    ELSE ForEachGrade(
             SetIndex(gradesValues, index, OrElse(grades[index + 1].grade, EmptyStr)),
             grades, index + 1)

ScalarParams(body) == [i \in 1..Len(ScalarFields) |-> body.f[ScalarFields[i]]]

\* params of the first handler: the scalars, ...subjects, ...gradesValues
ApplyParams1(body) ==
    ScalarParams(body)
        \o ForEachSubject(FilledArray, body.grades.items, 0)
        \o ForEachGrade(FilledArray, body.grades.items, 0)

\* a presence check that looks at three of the seven scalars only
Validation1ThreeFields(body) ==
    \/ Falsy(body.f["student_name"])
    \/ Falsy(body.f["student_id"])
    \/ Falsy(body.f["course_id"])

\* the first handler's presence check
Validation1Fails(body) == \E c \in ScalarFieldSet : Falsy(body.f[c])

\* the second handler's presence check
Validation2Fails(body) ==
    \/ Falsy(body.f["student_name"])
    \/ Falsy(body.f["student_id"])
    \/ Falsy(body.f["course_id"])

NoStatement == [columns |-> <<>>, placeholders |-> 0, params |-> <<>>]

\* what running a handler comes to.  status 0: no response was sent.
Outcome(handler, status, by, threw, stmt, rows, insertId) ==
    [handler |-> handler, status |-> status, by |-> by, threw |-> threw,
     calledNext |-> FALSE, stmt |-> stmt, rows |-> rows, insertId |-> insertId]

\* await query(INSERT ...) inside try/catch, then res.status(201) or 500
InsertApplication(handler, columns, placeholders, params, rows, dbDown) ==
    LET stmt == [columns |-> columns, placeholders |-> placeholders,
                 params |-> params]
        id == Len(rows) + 1
    IN  IF dbDown \/ ~InsertAccepted(columns, placeholders, params)
        THEN Outcome(handler, 500, "handler", FALSE, stmt, rows, 0)
        ELSE Outcome(handler, 201, "handler", FALSE, stmt,
                     Append(rows, [id |-> id,
                                   col |-> BoundColumns(columns, placeholders, params)]),
                     id)

\* An exception that leaves the async handler rejects its promise.  The
\* router either leaves the request unanswered or hands the error to its
\* final error handler, which answers 500.
Uncaught(handler, rows, answered) ==
    Outcome(handler, IF answered THEN 500 ELSE 0,
            IF answered THEN "framework" ELSE "none", TRUE, NoStatement, rows, 0)

\* the handler bound first (validates all seven scalars, 23 columns)
ApplyHandler1(body, rows, dbDown, answered) ==
    IF Validation1Fails(body)
    THEN Outcome(1, 400, "handler", FALSE, NoStatement, rows, 0)
    ELSE IF body.grades.kind # "array"
    THEN Uncaught(1, rows, answered)
    ELSE InsertApplication(1, ApplyColumns1, NumPlaceholders1,
                           ApplyParams1(body), rows, dbDown)

\* the handler bound second (validates three scalars, 7 columns)
ApplyHandler2(body, rows, dbDown, answered) ==
    IF Validation2Fails(body)
    THEN Outcome(2, 400, "handler", FALSE, NoStatement, rows, 0)
    ELSE InsertApplication(2, ApplyColumns2, NumPlaceholders2,
                           ScalarParams(body), rows, dbDown)

\* a router in which the handler bound last comes first
ApplyStackLastBoundFirst == <<2, 1>>

\* the handlers bound to POST /apply, in binding order
ApplyStack == <<1, 2>>

RunHandler(h, body, rows, dbDown, answered) ==
    IF h = 1 THEN ApplyHandler1(body, rows, dbDown, answered)
    ELSE ApplyHandler2(body, rows, dbDown, answered)

RECURSIVE DispatchFrom(_, _, _, _, _)
\* the router calls the matching handlers in binding order; a later one
\* runs only when the one before it calls next()
DispatchFrom(stack, body, rows, dbDown, answered) ==
    LET out == RunHandler(Head(stack), body, rows, dbDown, answered)
    IN  IF out.calledNext /\ Len(stack) > 1
        THEN DispatchFrom(Tail(stack), body, out.rows, dbDown, answered)
        ELSE out

Dispatch(body, rows, dbDown, answered) ==
    DispatchFrom(ApplyStack, body, rows, dbDown, answered)

(***************************************************************************)
(* Request bodies of POST /apply.                                          *)
(***************************************************************************)
\* longest grades sequence submitted
MaxGrades == 9

Present(c) == Str(c, 1)

\* most scalar fields one request leaves out
MaxMissing == 1

\* most rows POST /apply is let add to the applications table
MaxNewApplications == 2

ScalarInputs ==
    {s \in [ScalarFieldSet -> {"present", "absent"}] :
        Cardinality({c \in ScalarFieldSet : s[c] = "absent"}) <= MaxMissing}

ScalarsOf(choice) ==
    [c \in ScalarFieldSet |-> IF choice[c] = "present" THEN Present(c) ELSE Undefined]

\* n pairs with pairwise distinct subjects and grades; pair `blank` (if any)
\* carries an empty subject and no grade
Pairs(n, blank) ==
    [i \in 1..n |-> IF i = blank
                    THEN [subject |-> EmptyStr, grade |-> Undefined]
                    ELSE [subject |-> Str("subject", i), grade |-> Str("grade", i)]]

GradesInputs ==
    {[kind |-> "undefined", items |-> <<>>], [kind |-> "string", items |-> <<>>]}
    \cup {[kind |-> "array", items |-> Pairs(n, b)] : n \in 0..MaxGrades, b \in {0, 1}}

ApplyBodies == {[f |-> ScalarsOf(s), grades |-> g] : s \in ScalarInputs, g \in GradesInputs}

NoBody == [f |-> ScalarsOf([c \in ScalarFieldSet |-> "absent"]),
           grades |-> [kind |-> "undefined", items |-> <<>>]]

ApplyIdle ==
    [pc |-> "idle", body |-> NoBody, before |-> <<>>, dbDown |-> FALSE,
     out |-> Outcome(0, 0, "none", FALSE, NoStatement, <<>>, 0)]

\* an Application row already in the table when the server starts
SeedRow(id) ==
    [id |-> id, col |-> [c \in {ScalarColumns[i] : i \in 1..Len(ScalarColumns)} |->
                            Str(c[1], id)]]

SeedApplications == <<SeedRow(1), SeedRow(2)>>

\* one POST /apply request, from routing to response
Apply(body, dbDown, answered) ==
    LET out == Dispatch(body, applications, dbDown, answered)
    IN  /\ Len(applications) < Len(SeedApplications) + MaxNewApplications
        /\ applications' = out.rows
        /\ applyReq' = [pc |-> "done", body |-> body, before |-> applications,
                        dbDown |-> dbDown, out |-> out]
        /\ UNCHANGED <<users, authReq, institutions, nextInstId, instLog,
                       admissions, pub>>

(***************************************************************************)
(* Properties of POST /apply.                                              *)
(***************************************************************************)
AllScalarsPresent(body) == \A c \in ScalarFieldSet : ~Falsy(body.f[c])

ApplyDone == applyReq.pc = "done"

\* C1: a request with all seven scalars and a grades sequence of at most 8
\* pairs, the database being up, inserts exactly one Application row and is
\* answered 201 with that row's generated id.
C1_ValidApplyInsertsOneRow ==
    (/\ ApplyDone
     /\ AllScalarsPresent(applyReq.body)
     /\ applyReq.body.grades.kind = "array"
     /\ Len(applyReq.body.grades.items) <= NumSlots
     /\ ~applyReq.dbDown)
    => /\ applyReq.out.status = 201
       /\ Len(applications) = Len(applyReq.before) + 1
       /\ SubSeq(applications, 1, Len(applyReq.before)) = applyReq.before
       /\ applyReq.out.insertId = applications[Len(applications)].id

\* the value the reference mapping gives column subjectN / gradeN
ReferenceValue(items, field, n) ==
    IF n <= Len(items)
    THEN OrElse(IF field = "subject" THEN items[n].subject ELSE items[n].grade,
                EmptyStr)
    ELSE EmptyStr

\* C4: for every grades sequence, the values bound to the stored columns are
\* the reference mapping: subjectN and gradeN hold the N-th pair's subject and
\* grade, or the empty string beyond the sequence's length; pairs 9 and above
\* affect no column.
C4_ColumnsHoldReferenceMapping ==
    (ApplyDone /\ applyReq.out.stmt # NoStatement)
    => LET stmt == applyReq.out.stmt
           bound == BoundColumns(stmt.columns, stmt.placeholders, stmt.params)
       IN  \A n \in 1..NumSlots : \A field \in {"subject", "grade"} :
               /\ Col(field, n) \in DOMAIN bound
               /\ bound[Col(field, n)] =
                      ReferenceValue(applyReq.body.grades.items, field, n)

\* C5: a request with any required scalar field missing is answered 400 by
\* the handler, issues no insert statement and leaves the Application rows
\* unchanged.
C5_MissingFieldRejected ==
    (ApplyDone /\ ~AllScalarsPresent(applyReq.body))
    => /\ applyReq.out.status = 400
       /\ applyReq.out.by = "handler"
       /\ applyReq.out.stmt = NoStatement
       /\ applications = applyReq.before

\* a request that lacks course_id only has been answered 400
C5_Witness ==
    /\ ApplyDone
    /\ Falsy(applyReq.body.f["course_id"])
    /\ \A c \in ScalarFieldSet \ {"course_id"} : ~Falsy(applyReq.body.f[c])
    /\ applyReq.out.status = 400

\* C9 as stated: the handler bound later handles every POST /apply request.
C9_LastBoundHandlerServes == ApplyDone => applyReq.out.handler = 2

\* C9 as amended: the handler bound earlier handles every POST /apply
\* request; the one bound later never runs.
C9_FirstBoundHandlerServes == ApplyDone => applyReq.out.handler = 1

\* a request the second handler would have accepted (only phone_number is
\* missing) has been rejected by the first
C9_Witness ==
    /\ ApplyDone
    /\ applyReq.out.handler = 1
    /\ Falsy(applyReq.body.f["phone_number"])
    /\ ~Validation2Fails(applyReq.body)
    /\ applyReq.out.status = 400

\* C10: every POST /apply request is answered by its handler with 201, 400
\* or 500, and no exception leaves the handler.
C10_AnsweredByHandler ==
    ApplyDone => /\ ~applyReq.out.threw
                 /\ applyReq.out.by = "handler"
                 /\ applyReq.out.status \in {201, 400, 500}

(***************************************************************************)
(* POST /register and POST /login.                                         *)
(***************************************************************************)
\* bcrypt uses the first 72 bytes of the password only
BcryptMaxBytes == 72

\* "$2b$10$": the version and the cost factor 10 passed to bcrypt.hash
BcryptHeader == <<36, 50, 98, 36, 49, 48, 36>>

BcryptKey(password) == SubSeq(password[2], 1, Min(Len(password[2]), BcryptMaxBytes))

\* bcrypt.hash(password, 10) under the salt drawn; the digest is a one-to-one
\* function of the salt and the key, written here as the pair itself
BcryptHash(password, salt) == Bytes(BcryptHeader \o <<salt>> \o BcryptKey(password))

SaltOf(stored) == stored[2][Len(BcryptHeader) + 1]

\* bcrypt.compare(password, stored): hash again under the stored salt
BcryptCompare(password, stored) == BcryptHash(password, SaltOf(stored)) = stored

\* multer's fileFilter: the declared MIME type matches /jpeg|jpg|png|gif/
FileAccepted(file) == file \in {"image/jpeg", "image/png", "image/gif"}

NoProfile == [id |-> 0, name |-> Undefined, email |-> Undefined]

AuthResponse(op, email, password, status, by, profile) ==
    [op |-> op, email |-> email, password |-> password, status |-> status,
     by |-> by, profile |-> profile]

\* the users row the INSERT of /register creates (plain is not a column: it
\* remembers the plaintext the row was registered with)
UserRow(id, name, email, password, user_type, path, salt) ==
    [id |-> id, name |-> name, email |-> email,
     password |-> BcryptHash(password, salt), user_type |-> user_type,
     profile_picture |-> path, plain |-> password]

\* most rows the users table is let grow to
MaxUsers == 2

\* one POST /register request; file is "none" when no file part is sent
Register(name, email, password, user_type, file, salt, dbDown) ==
    /\ Len(users) < MaxUsers
    /\ IF file # "none" /\ ~FileAccepted(file)
       THEN \* upload.single passes the filter's error on; the handler is not run
            /\ authReq' = AuthResponse("register", email, password, 500,
                                       "framework", NoProfile)
            /\ users' = users
       ELSE IF Falsy(name) \/ Falsy(email) \/ Falsy(password)
                  \/ Falsy(user_type) \/ file = "none"
       THEN /\ authReq' = AuthResponse("register", email, password, 400,
                                       "handler", NoProfile)
            /\ users' = users
       ELSE IF dbDown
       THEN /\ authReq' = AuthResponse("register", email, password, 500,
                                       "handler", NoProfile)
            /\ users' = users
       ELSE /\ authReq' = AuthResponse("register", email, password, 201,
                                       "handler", NoProfile)
            /\ users' = Append(users,
                   UserRow(Len(users) + 1, name, email, password, user_type,
                           Str("uploads", Len(users) + 1), salt))
    /\ UNCHANGED <<institutions, nextInstId, instLog, applications, applyReq,
                   admissions, pub>>

\* SELECT * FROM users WHERE email = ?
UsersByEmail(email) == {i \in 1..Len(users) : users[i].email = email}

\* one POST /login request; first is the row the SELECT returns first (the
\* statement has no ORDER BY)
Login(email, password, first, dbDown) ==
    /\ first \in UsersByEmail(email) \cup {0}
    /\ first = 0 <=> (UsersByEmail(email) = {} \/ Falsy(email) \/ Falsy(password) \/ dbDown)
    /\ authReq' =
         IF Falsy(email) \/ Falsy(password)
         THEN AuthResponse("login", email, password, 400, "handler", NoProfile)
         ELSE IF dbDown
         THEN AuthResponse("login", email, password, 500, "handler", NoProfile)
         ELSE IF first # 0 /\ BcryptCompare(password, users[first].password)
         THEN AuthResponse("login", email, password, 200, "handler",
                           [id |-> users[first].id, name |-> users[first].name,
                            email |-> users[first].email])
         ELSE AuthResponse("login", email, password, 401, "handler", NoProfile)
    /\ UNCHANGED <<users, institutions, nextInstId, instLog, applications,
                   applyReq, admissions, pub>>

(***************************************************************************)
(* Request inputs of /register and /login.                                 *)
(***************************************************************************)
LongBlock == [i \in 1..BcryptMaxBytes |-> 7]

Passwords == {Bytes(<<1>>), Bytes(LongBlock \o <<1>>), Bytes(LongBlock \o <<2>>)}

Emails == {Str("email", 1), Str("email", 2)}

Names == {Str("name", 1)}

Salts == {1, 2}

Files == {"none", "image/png", "application/pdf"}

\* C2: for every user created by a successful register, the stored password
\* differs from the submitted plaintext, a login with the user's email and the
\* correct plaintext returns 200 with that user's profile, and a login with
\* that email and any other plaintext returns 401.
C2_RegisteredUsersLogIn ==
    /\ \A i \in 1..Len(users) : users[i].password # users[i].plain
    /\ (authReq.op = "login" /\ authReq.status \notin {400, 500})
       => \A i \in UsersByEmail(authReq.email) :
              IF authReq.password = users[i].plain
              THEN authReq.status = 200 /\ authReq.profile.id = users[i].id
              ELSE authReq.status = 401

(***************************************************************************)
(* POST /institutions and DELETE /institutions/:id.                        *)
(***************************************************************************)
InstitutionIds(rows) == {r.id : r \in rows}

\* an entry of the request history: the request, its response, and the ids
\* of the Institution rows before and after it
InstEvent(op, id, dbDown, status, before, after) ==
    [op |-> op, id |-> id, dbDown |-> dbDown, status |-> status,
     before |-> InstitutionIds(before), after |-> InstitutionIds(after)]

\* most Institution rows ever created
MaxInstitutions == 2

\* most /institutions requests in one history
MaxInstRequests == 4

InstFields == {"name", "number_of_students", "number_of_departments",
               "number_of_courses"}

\* one POST /institutions request; missing is the set of body fields left out
CreateInstitution(missing, file, dbDown) ==
    /\ Len(instLog) < MaxInstRequests
    /\ nextInstId <= MaxInstitutions
    /\ IF file # "none" /\ ~FileAccepted(file)
       THEN \* upload.single passes the filter's error on; the handler is not run
            /\ UNCHANGED <<institutions, nextInstId>>
            /\ instLog' = Append(instLog,
                   InstEvent("create", 0, dbDown, 500, institutions, institutions))
       ELSE IF missing # {} \/ file = "none"
       THEN /\ UNCHANGED <<institutions, nextInstId>>
            /\ instLog' = Append(instLog,
                   InstEvent("create", 0, dbDown, 400, institutions, institutions))
       ELSE IF dbDown
       THEN /\ UNCHANGED <<institutions, nextInstId>>
            /\ instLog' = Append(instLog,
                   InstEvent("create", 0, dbDown, 500, institutions, institutions))
       ELSE /\ institutions' = institutions \cup
                   {[id |-> nextInstId, name |-> Str("name", nextInstId),
                     logo |-> Str("uploads", nextInstId)]}
            /\ nextInstId' = nextInstId + 1
            /\ instLog' = Append(instLog,
                   InstEvent("create", nextInstId, dbDown, 201, institutions,
                             institutions'))
    /\ UNCHANGED <<users, authReq, applications, applyReq, admissions, pub>>

\* a delete handler that reports success whatever the statement affected
DeleteStatusAlwaysOk(affectedRows) == 200

\* result.affectedRows > 0 ? 200 : 404
DeleteStatus(affectedRows) == IF affectedRows > 0 THEN 200 ELSE 404

\* one DELETE /institutions/:id request
DeleteInstitution(id, dbDown) ==
    /\ Len(instLog) < MaxInstRequests
    /\ IF dbDown
       THEN /\ institutions' = institutions
            /\ instLog' = Append(instLog,
                   InstEvent("delete", id, dbDown, 500, institutions, institutions))
       ELSE LET hit == {r \in institutions : r.id = id}
            IN  /\ institutions' = institutions \ hit
                /\ instLog' = Append(instLog,
                       InstEvent("delete", id, dbDown,
                                 DeleteStatus(Cardinality(hit)),
                                 institutions, institutions'))
    /\ UNCHANGED <<users, authReq, nextInstId, applications, applyReq,
                   admissions, pub>>

\* the delete requests of the history that reached the database
Deletes == {i \in 1..Len(instLog) : instLog[i].op = "delete" /\ ~instLog[i].dbDown}

\* C6: deleteInstitution(id) answers 200 exactly when a row with that id
\* existed, and removes it; otherwise it answers 404 and leaves the rows
\* unchanged; two consecutive calls on the same existing id, with no
\* institution created in between, yield 200 then 404.
C6_DeleteIdempotent ==
    /\ \A i \in Deletes :
          LET e == instLog[i]
          IN  IF e.id \in e.before
              THEN e.status = 200 /\ e.after = e.before \ {e.id}
              ELSE e.status = 404 /\ e.after = e.before
    /\ \A i \in Deletes : \A j \in Deletes :
          (/\ i < j
           /\ instLog[i].id = instLog[j].id
           /\ instLog[i].status = 200
           /\ \A k \in (i + 1)..(j - 1) : instLog[k].op # "create")
          => instLog[j].status = 404

\* an existing institution has been deleted twice in a row: 200, then 404
C6_Witness ==
    \E i \in 1..(Len(instLog) - 1) :
        /\ i \in Deletes /\ (i + 1) \in Deletes
        /\ instLog[i].id = instLog[i + 1].id
        /\ instLog[i].status = 200
        /\ instLog[i + 1].status = 404

(***************************************************************************)
(* POST /publish-admissions.  The handler awaits one SELECT and, for an    *)
(* application found, one INSERT per list entry; requests interleave at    *)
(* these awaits.                                                           *)
(***************************************************************************)
\* the concurrent requests
Publishers == {"p1", "p2"}

\* longest application_ids list submitted
MaxIds == 2

\* the ids a request may name: those of the rows, and one that names no row
PublishIds == 1..(Len(SeedApplications) + 1)

NoRow == [id |-> 0, col |-> <<>>]

PublishIdle ==
    [pc |-> "idle", ids |-> <<>>, idx |-> 0, cur |-> NoRow, status |-> 0,
     ins |-> <<>>, failedAt |-> 0]

\* SELECT * FROM applications WHERE id = ?
SelectApplication(appId) ==
    SelectSeq(applications, LAMBDA row : row.id = appId)

\* an insert guarded by a look-up of an equal Admission row
FoundAndNotAdmitted(result) ==
    /\ Len(result) > 0
    /\ \A i \in 1..Len(admissions) :
           \/ admissions[i].student_id # result[1].col[Col("student_id", 0)]
           \/ admissions[i].course_id # result[1].col[Col("course_id", 0)]

\* if (applicationResult.length)
Found(result) == Len(result) > 0

\* the parameters with the two copied columns exchanged
AdmissionParamsExchanged(app) ==
    <<app.col[Col("course_id", 0)], app.col[Col("student_id", 0)], Null, Null>>

\* [student_id, course_id, null, null]
AdmissionParams(app) ==
    <<app.col[Col("student_id", 0)], app.col[Col("course_id", 0)], Null, Null>>

\* INSERT INTO admissions (student_id, course_id, institution_id, faculty_id,
\* status) VALUES (?, ?, ?, ?, 'admitted')
AdmissionRow(id, params) ==
    [id |-> id, student_id |-> params[1], course_id |-> params[2],
     institution_id |-> params[3], faculty_id |-> params[4],
     status |-> "admitted"]

\* the next iteration of the for loop, or the 200 response after the last
NextEntry(p) ==
    IF p.idx + 1 > Len(p.ids)
    THEN [p EXCEPT !.idx = p.idx + 1, !.cur = NoRow, !.pc = "done", !.status = 200]
    ELSE [p EXCEPT !.idx = p.idx + 1, !.cur = NoRow, !.pc = "select"]

\* the catch block: respond 500; the loop is left
Caught(p) ==
    [p EXCEPT !.pc = "done", !.status = 500, !.cur = NoRow, !.failedAt = p.idx]

\* a catch block that undoes the request's inserts
AdmissionsRolledBack(table, p) ==
    SelectSeq(table, LAMBDA row : \A k \in 1..Len(p.ins) : row.id # p.ins[k])

\* the admissions table after the catch block: nothing is undone
AdmissionsAfterError(table, p) == table

\* the request arrives: validation of req.body.application_ids
PublishReceive(r, ids) ==
    /\ pub[r].pc = "idle"
    /\ pub' = [pub EXCEPT ![r] =
         IF ids.kind # "array" \/ Len(ids.items) = 0
         THEN [@ EXCEPT !.pc = "done", !.status = 400]
         ELSE [@ EXCEPT !.pc = "select", !.ids = ids.items, !.idx = 1]]
    /\ UNCHANGED <<users, authReq, institutions, nextInstId, instLog,
                   applications, applyReq, admissions>>

\* the SELECT for the current entry completes
PublishSelect(r, dbDown) ==
    /\ pub[r].pc = "select"
    /\ LET result == SelectApplication(pub[r].ids[pub[r].idx])
       IN  IF dbDown
           THEN /\ pub' = [pub EXCEPT ![r] = Caught(@)]
                /\ admissions' = AdmissionsAfterError(admissions, pub[r])
           ELSE /\ pub' = [pub EXCEPT ![r] =
                      IF Found(result)
                      THEN [@ EXCEPT !.pc = "insert", !.cur = result[1]]
                      ELSE NextEntry(@)]
                /\ admissions' = admissions
    /\ UNCHANGED <<users, authReq, institutions, nextInstId, instLog,
                   applications, applyReq>>

\* the INSERT for the current entry completes
PublishInsert(r, dbDown) ==
    /\ pub[r].pc = "insert"
    /\ IF dbDown
       THEN /\ pub' = [pub EXCEPT ![r] = Caught(@)]
            /\ admissions' = AdmissionsAfterError(admissions, pub[r])
       ELSE LET id == Len(admissions) + 1
            IN  /\ admissions' = Append(admissions,
                       AdmissionRow(id, AdmissionParams(pub[r].cur)))
                /\ pub' = [pub EXCEPT ![r] =
                       NextEntry([@ EXCEPT !.ins = Append(@, id)])]
    /\ UNCHANGED <<users, authReq, institutions, nextInstId, instLog,
                   applications, applyReq>>

RECURSIVE SeqsUpTo(_, _)
\* the sequences over S of length at most n
SeqsUpTo(S, n) ==
    IF n = 0 THEN {<<>>}
    ELSE LET shorter == SeqsUpTo(S, n - 1)
         IN  shorter \cup {Append(q, x) : q \in shorter, x \in S}

PublishBodies ==
    {[kind |-> "undefined", items |-> <<>>], [kind |-> "string", items |-> <<>>]}
    \cup {[kind |-> "array", items |-> q] : q \in SeqsUpTo(PublishIds, MaxIds)}

(***************************************************************************)
(* The server.  It starts on a database that holds the seed applications   *)
(* and no other rows.  The four groups of routes work on disjoint tables,  *)
(* so each group is also given as a specification of its own.              *)
(***************************************************************************)
Init ==
    /\ users = <<>>
    /\ authReq = AuthResponse("none", Undefined, Undefined, 0, "none", NoProfile)
    /\ institutions = {}
    /\ nextInstId = 1
    /\ instLog = <<>>
    /\ applications = SeedApplications
    /\ applyReq = ApplyIdle
    /\ admissions = <<>>
    /\ pub = [r \in Publishers |-> PublishIdle]

NextAuth ==
    \/ \E name \in Names \cup {Undefined}, email \in Emails \cup {Undefined},
          password \in Passwords \cup {Undefined}, file \in Files,
          salt \in Salts, dbDown \in BOOLEAN :
           Register(name, email, password, Str("user_type", 1), file, salt, dbDown)
    \/ \E email \in Emails \cup {Undefined}, password \in Passwords \cup {Undefined},
          first \in 0..MaxUsers, dbDown \in BOOLEAN :
           Login(email, password, first, dbDown)

NextInst ==
    \/ \E missing \in {{}} \cup {{c} : c \in InstFields}, file \in Files,
          dbDown \in BOOLEAN :
           CreateInstitution(missing, file, dbDown)
    \/ \E id \in 1..(MaxInstitutions + 1), dbDown \in BOOLEAN :
           DeleteInstitution(id, dbDown)

NextApply == \E body \in ApplyBodies, dbDown \in BOOLEAN, answered \in BOOLEAN :
                 Apply(body, dbDown, answered)

NextPublish ==
    \/ \E r \in Publishers, ids \in PublishBodies : PublishReceive(r, ids)
    \/ \E r \in Publishers, dbDown \in BOOLEAN : PublishSelect(r, dbDown)
    \/ \E r \in Publishers, dbDown \in BOOLEAN : PublishInsert(r, dbDown)

Next == NextAuth \/ NextInst \/ NextApply \/ NextPublish

Spec == Init /\ [][Next]_vars

SpecAuth == Init /\ [][NextAuth]_vars

SpecInst == Init /\ [][NextInst]_vars

SpecApply == Init /\ [][NextApply]_vars

SpecPublish == Init /\ [][NextPublish]_vars

(***************************************************************************)
(* Properties of POST /publish-admissions.                                 *)
(***************************************************************************)
ApplicationIds == {applications[i].id : i \in 1..Len(applications)}

ApplicationById(id) == applications[CHOOSE i \in 1..Len(applications) :
                                        applications[i].id = id]

\* the entries of ids, in order, that name an existing Application
NamedApplications(ids) == SelectSeq(ids, LAMBDA id : id \in ApplicationIds)

AdmissionIds == {admissions[i].id : i \in 1..Len(admissions)}

AdmissionById(id) == admissions[CHOOSE i \in 1..Len(admissions) :
                                    admissions[i].id = id]

\* the Admission row the handler is to create from Application id
ExpectedAdmission(row, id) ==
    /\ row.student_id = ApplicationById(id).col[Col("student_id", 0)]
    /\ row.course_id = ApplicationById(id).col[Col("course_id", 0)]
    /\ row.institution_id = Null
    /\ row.faculty_id = Null
    /\ row.status = "admitted"

\* the rows p inserted are those of the entries of ids naming an Application
InsertedFor(p, ids) ==
    LET named == NamedApplications(ids)
    IN  /\ Len(p.ins) = Len(named)
        /\ \A k \in 1..Len(named) :
               /\ p.ins[k] \in AdmissionIds
               /\ ExpectedAdmission(AdmissionById(p.ins[k]), named[k])

RECURSIVE TotalInserted(_)
TotalInserted(rs) ==
    IF rs = {} THEN 0
    ELSE LET r == CHOOSE x \in rs : TRUE
         IN  Len(pub[r].ins) + TotalInserted(rs \ {r})

\* C3: a request with a non-empty id list and no database failure inserts
\* exactly one Admission row (student_id and course_id copied, institution_id
\* and faculty_id null, status 'admitted') per entry naming an existing
\* Application, nothing for any other entry, and is answered 200.
C3_OneAdmissionPerNamedApplication ==
    /\ Len(admissions) = TotalInserted(Publishers)
    /\ \A r \in Publishers :
          (pub[r].pc = "done" /\ Len(pub[r].ids) > 0 /\ pub[r].failedAt = 0)
          => /\ pub[r].status = 200
             /\ InsertedFor(pub[r], pub[r].ids)

\* a list of one valid and one non-existent id has been published: one row
C3_Witness ==
    \E r \in Publishers :
        /\ pub[r].pc = "done"
        /\ pub[r].status = 200
        /\ pub[r].ids = <<1, Len(SeedApplications) + 1>>
        /\ Len(pub[r].ins) = 1
        /\ Len(admissions) = 1

\* C7: a database error at the N-th entry is answered 500, no later entry
\* is processed, and the rows inserted for the first N-1 entries stay in the
\* table.
C7_PartialCommitOnError ==
    \A r \in Publishers :
        pub[r].failedAt # 0
        => /\ pub[r].pc = "done"
           /\ pub[r].status = 500
           /\ pub[r].idx = pub[r].failedAt
           /\ pub[r].idx \in 1..Len(pub[r].ids)
           /\ InsertedFor(pub[r], SubSeq(pub[r].ids, 1, pub[r].failedAt - 1))

\* a request failed at its second entry after inserting a row for the first
C7_Witness ==
    \E r \in Publishers :
        /\ pub[r].status = 500
        /\ pub[r].failedAt = 2
        /\ Len(pub[r].ins) = 1
        /\ pub[r].ins[1] \in AdmissionIds

\* the Admission rows copied from Application id
AdmissionsOf(id) ==
    {i \in 1..Len(admissions) :
        /\ admissions[i].student_id = ApplicationById(id).col[Col("student_id", 0)]
        /\ admissions[i].course_id = ApplicationById(id).col[Col("course_id", 0)]}

Elems(q) == {q[i] : i \in 1..Len(q)}

\* C8: two requests whose lists overlap, however interleaved, leave two
\* Admission rows with the student_id and course_id of the same
\* Application: the handler has no check against it.
C8_OverlapDuplicates ==
    \A r1 \in Publishers : \A r2 \in Publishers \ {r1} :
        (/\ pub[r1].pc = "done" /\ pub[r1].status = 200
         /\ pub[r2].pc = "done" /\ pub[r2].status = 200)
        => \A id \in Elems(pub[r1].ids) \cap Elems(pub[r2].ids) \cap ApplicationIds :
               Cardinality(AdmissionsOf(id)) >= 2

\* two interleaved requests have each inserted a row for Application 1
C8_Witness ==
    \E r1 \in Publishers : \E r2 \in Publishers \ {r1} :
        /\ pub[r1].pc = "done" /\ pub[r1].status = 200
        /\ pub[r2].pc = "done" /\ pub[r2].status = 200
        /\ Len(pub[r1].ins) = 2 /\ Len(pub[r2].ins) = 1
        /\ pub[r1].ins[1] < pub[r2].ins[1]
        /\ pub[r2].ins[1] < pub[r1].ins[2]
        /\ \E i \in AdmissionsOf(1) : \E j \in AdmissionsOf(1) :
               /\ i # j
               /\ admissions[i].id \in Elems(pub[r1].ins)
               /\ admissions[j].id \in Elems(pub[r2].ins)

=============================================================================
